---- MODULE Spec2Model ----
(***************************************************************************)
(* Model of simulate_c.py: the evaluator compute_vstar, the estimator      *)
(* bootstrap_vstar running on the process-wide random source of Python's   *)
(* `random` module, and the part of main that calls the estimator and      *)
(* prints its result.                                                      *)
(*                                                                         *)
(* Numbers.  The program computes in double precision; the model computes  *)
(* in fixed point with explicit rounding (floor):                          *)
(*   - chi and kappa are integers in one common unit of 5e-13, so that the *)
(*     clamp floor 1e-12 is 2 units and there are positive values below it;*)
(*   - eps is an integer multiple of 1;                                    *)
(*   - a standard normal deviate is an integer in -2..2, and the stream of *)
(*     deviates that a seed selects is a fixed table (Gauss01) standing    *)
(*     for the generator of the `random` module: the state of the source   *)
(*     is the seed last given and the number of deviates drawn since;      *)
(*   - the quotient chi/kappa is kept to 1/RatioScale, its square root to  *)
(*     1/100, and v* in units of 1e33 m/s (ELL_P = 1616255e-41).           *)
(* The lattice size n is carried by SimParams but read by no computation;  *)
(* it is left out of the record.                                           *)
(***************************************************************************)
EXTENDS Integers, Sequences, FiniteSets

\* ------------------------------------------------------------------ bounds
MaxChi == 3
MaxKappa == 2
MaxEps == 1
MaxTrials == 2
MaxSeed == 1
NegSpan == 1

\* --------------------------------------------------------- program constants
ChiFloor == 2
RatioScale == 10000
EllPScale == 1000000
ELL_P == 1616255
DEFAULT_TRIALS == 1
DEFAULT_SEED == 0

\* ------------------------------------------------------------ input domains
ChiVals == (0 - NegSpan)..MaxChi
KappaVals == (0 - NegSpan)..MaxKappa
EpsVals == (0 - NegSpan)..MaxEps
TrialVals == (0 - NegSpan)..MaxTrials
SeedVals == 0..MaxSeed
Procs == {1, 2}
None == 0 - 1000

\* The SimParams record (without n).
SimParams == [chi : ChiVals, kappa : KappaVals, eps : EpsVals,
              trials : TrialVals, seed : SeedVals]

\* The argparse namespace: --trials and --seed may be absent (None).
Namespaces == [chi : ChiVals, kappa : KappaVals, eps : EpsVals,
               trials : TrialVals \cup {None}, seed : SeedVals \cup {None}]

\* The namespaces that meet the estimator's preconditions.
ValidNamespaces ==
    {ns \in Namespaces :
        /\ ns.chi > 0 /\ ns.kappa > 0 /\ ns.eps >= 0
        /\ (ns.trials >= 1 \/ ns.trials = None)}

NoParams == [chi |-> 0, kappa |-> 0, eps |-> 0, trials |-> 0, seed |-> 0]
NoResult == <<0 - 1, 0 - 1>>
NoCount == [seed |-> 0, draw |-> 0, eval |-> 0]
NoEval == [called |-> FALSE, chi |-> 0, kappa |-> 0, raised |-> "none", value |-> <<>>]
NoRef == [set |-> FALSE, params |-> NoParams, err |-> "none", ret |-> NoResult]

VARIABLES rng, pc, params, cur, samples, ret, err, out, cnt, ref, ev, evPrev

vars == <<rng, pc, params, cur, samples, ret, err, out, cnt, ref, ev, evPrev>>

\* ------------------------------------------------------------ pure functions
\* The largest r in lo..hi with r * r <= x, by bisection.
RECURSIVE SqrtBetween(_, _, _)
SqrtBetween(x, lo, hi) ==
    IF lo >= hi
    THEN lo
    ELSE LET mid == (lo + hi + 1) \div 2
         IN IF mid * mid <= x
            THEN SqrtBetween(x, mid, hi)
            ELSE SqrtBetween(x, lo, mid - 1)

\* math.sqrt, rounded down to the model's resolution.  The root of x is at
\* most RatioScale or x / RatioScale, whichever is larger.
math_sqrt(x) == SqrtBetween(x, 0, RatioScale + x \div RatioScale)

\* A slip in the domain check: chi is tested with < instead of <=.
compute_vstar_strict(chi, kappa) ==
    IF chi < 0 \/ kappa <= 0
    THEN [raised |-> "ValueError", value |-> <<>>]
    ELSE [raised |-> "none",
          value |-> <<(math_sqrt((chi * RatioScale) \div kappa) * EllPScale) \div ELL_P>>]

\* A slip in the formula: the product chi * kappa instead of the quotient.
compute_vstar_product(chi, kappa) ==
    IF chi <= 0 \/ kappa <= 0
    THEN [raised |-> "ValueError", value |-> <<>>]
    ELSE [raised |-> "none",
          value |-> <<(math_sqrt(chi * kappa * RatioScale) * EllPScale) \div ELL_P>>]

\* A slip in the formula: the quotient inverted, kappa / chi.
compute_vstar_inverted(chi, kappa) ==
    IF chi <= 0 \/ kappa <= 0
    THEN [raised |-> "ValueError", value |-> <<>>]
    ELSE [raised |-> "none",
          value |-> <<(math_sqrt((kappa * RatioScale) \div chi) * EllPScale) \div ELL_P>>]

\* compute_vstar: the domain check, then sqrt(chi / kappa) / ELL_P.
\* `raised` names the exception ("none" on a return), `value` holds the
\* returned value and is empty when the call raised.
compute_vstar(chi, kappa) ==
    IF chi <= 0 \/ kappa <= 0
    THEN [raised |-> "ValueError", value |-> <<>>]
    ELSE [raised |-> "none",
          value |-> <<(math_sqrt((chi * RatioScale) \div kappa) * EllPScale) \div ELL_P>>]

\* The standard normal deviate that the stream seeded with `seed` yields at
\* position `pos`: a fixed table, the same for every run.
Gauss01(seed, pos) == ((2 * seed + 3 * pos + seed * pos + 1) % 5) - 2

\* A slip in random.gauss: the deviate is not scaled by sigma.
gauss_unscaled(mu, sigma, z) == mu + z

\* random.gauss(mu, sigma) for the deviate z: mu + z * sigma.
gauss(mu, sigma, z) == mu + z * sigma

max(a, b) == IF b > a THEN b ELSE a

\* The draw without the clamp.
PerturbedChiNoClamp(p, z) == gauss(p.chi, p.eps * p.chi, z)

\* The argument of compute_vstar in the comprehension: the clamped draw.
PerturbedChi(p, z) == max(ChiFloor, gauss(p.chi, p.eps * p.chi, z))

RECURSIVE SumSeq(_)
SumSeq(s) == IF s = <<>> THEN 0 ELSE Head(s) + SumSeq(Tail(s))

RECURSIVE SumSq(_)
SumSq(s) == IF s = <<>> THEN 0 ELSE Head(s) * Head(s) + SumSq(Tail(s))

\* statistics.mean of a non-empty sample.
Mean(s) == SumSeq(s) \div Len(s)

\* statistics.stdev of a sample of at least two values (Bessel-corrected).
Stdev(s) ==
    LET n == Len(s)
    IN math_sqrt((n * SumSq(s) - SumSeq(s) * SumSeq(s)) \div (n * (n - 1)))

\* ns_to_params: a missing attribute gets its default.
ns_to_params(ns) ==
    [chi |-> ns.chi, kappa |-> ns.kappa, eps |-> ns.eps,
     trials |-> IF ns.trials # None THEN ns.trials ELSE DEFAULT_TRIALS,
     seed |-> IF ns.seed # None THEN ns.seed ELSE DEFAULT_SEED]

\* The sample bootstrap_vstar builds in k iterations when nothing else uses
\* the random source between its seeding and its last draw.
RECURSIVE SamplesAlone(_, _)
SamplesAlone(p, k) ==
    IF k <= 0
    THEN <<>>
    ELSE SamplesAlone(p, k - 1) \o
         compute_vstar(PerturbedChi(p, Gauss01(p.seed, k - 1)), p.kappa).value

\* The (mean, stdev) pair bootstrap_vstar returns for valid parameters when
\* it runs alone.
bootstrap_vstar_alone(p) ==
    LET s == SamplesAlone(p, p.trials)
    IN <<Mean(s), IF p.trials > 1 THEN Stdev(s) ELSE 0>>

\* ------------------------------------------------------------------- state
\* The random source is seeded from the operating system at import: any
\* stream, any position.
Init ==
    /\ rng \in [seed : SeedVals, pos : 0..MaxTrials]
    /\ pc = [p \in Procs |-> "idle"]
    /\ params = [p \in Procs |-> NoParams]
    /\ cur = [p \in Procs |-> 0]
    /\ samples = [p \in Procs |-> <<>>]
    /\ ret = [p \in Procs |-> NoResult]
    /\ err = [p \in Procs |-> "none"]
    /\ out = [p \in Procs |-> <<>>]
    /\ cnt = [p \in Procs |-> NoCount]
    /\ ref = NoRef
    /\ ev = NoEval
    /\ evPrev = NoEval

\* ----------------------------------------------------------------- actions
\* main with a namespace of NS: parse_cli and ns_to_params, then the call of
\* bootstrap_vstar.
Call(p, NS) ==
    /\ pc[p] = "idle"
    /\ \E ns \in NS :
          params' = [params EXCEPT ![p] = ns_to_params(ns)]
    /\ pc' = [pc EXCEPT ![p] = "seed"]
    /\ cur' = [cur EXCEPT ![p] = 0]
    /\ samples' = [samples EXCEPT ![p] = <<>>]
    /\ ret' = [ret EXCEPT ![p] = NoResult]
    /\ err' = [err EXCEPT ![p] = "none"]
    /\ out' = [out EXCEPT ![p] = <<>>]
    /\ cnt' = [cnt EXCEPT ![p] = NoCount]
    /\ UNCHANGED <<rng, ref, ev, evPrev>>

\* main on any command line.
Main(p) == Call(p, Namespaces)

\* main on a command line that satisfies the documented preconditions.
MainValid(p) == Call(p, ValidNamespaces)

\* main has ended, with its result printed or with the exception it let
\* through; its locals are gone.  It may be called again in the same
\* interpreter: the random source keeps its state between the calls.
Return(p) ==
    /\ pc[p] \in {"exit", "raised"}
    /\ pc' = [pc EXCEPT ![p] = "idle"]
    /\ params' = [params EXCEPT ![p] = NoParams]
    /\ cur' = [cur EXCEPT ![p] = 0]
    /\ samples' = [samples EXCEPT ![p] = <<>>]
    /\ ret' = [ret EXCEPT ![p] = NoResult]
    /\ err' = [err EXCEPT ![p] = "none"]
    /\ out' = [out EXCEPT ![p] = <<>>]
    /\ cnt' = [cnt EXCEPT ![p] = NoCount]
    /\ UNCHANGED <<rng, ref, ev, evPrev>>

\* A seeding that selects the stream but does not rewind it.
SeedKeepPos(p) ==
    /\ pc[p] = "seed"
    /\ rng' = [seed |-> params[p].seed, pos |-> rng.pos]
    /\ cnt' = [cnt EXCEPT ![p].seed = @ + 1]
    /\ pc' = [pc EXCEPT ![p] = "loop"]
    /\ UNCHANGED <<params, cur, samples, ret, err, out, ref, ev, evPrev>>

\* random.seed(params.seed) on the module-level random source.
Seed(p) ==
    /\ pc[p] = "seed"
    /\ rng' = [seed |-> params[p].seed, pos |-> 0]
    /\ cnt' = [cnt EXCEPT ![p].seed = @ + 1]
    /\ pc' = [pc EXCEPT ![p] = "loop"]
    /\ UNCHANGED <<params, cur, samples, ret, err, out, ref, ev, evPrev>>

\* A draw that seeds the source again before it draws.
DrawReseed(p) ==
    /\ pc[p] = "loop"
    /\ Len(samples[p]) < params[p].trials
    /\ cur' = [cur EXCEPT ![p] = PerturbedChi(params[p], Gauss01(params[p].seed, 0))]
    /\ rng' = [seed |-> params[p].seed, pos |-> 1]
    /\ cnt' = [cnt EXCEPT ![p].draw = @ + 1, ![p].seed = @ + 1]
    /\ pc' = [pc EXCEPT ![p] = "eval"]
    /\ UNCHANGED <<params, samples, ret, err, out, ref, ev, evPrev>>

\* One iteration, first half: random.gauss on the module-level source and
\* the clamp.
Draw(p) ==
    /\ pc[p] = "loop"
    /\ Len(samples[p]) < params[p].trials
    /\ cur' = [cur EXCEPT ![p] = PerturbedChi(params[p], Gauss01(rng.seed, rng.pos))]
    /\ rng' = [rng EXCEPT !.pos = @ + 1]
    /\ cnt' = [cnt EXCEPT ![p].draw = @ + 1]
    /\ pc' = [pc EXCEPT ![p] = "eval"]
    /\ UNCHANGED <<params, samples, ret, err, out, ref, ev, evPrev>>

\* An evaluation step that swallows the ValueError and puts 0 in the sample.
EvalSwallow(p) ==
    /\ pc[p] = "eval"
    /\ LET r == compute_vstar(cur[p], params[p].kappa)
       IN samples' = [samples EXCEPT ![p] =
              Append(@, IF r.raised = "none" THEN r.value[1] ELSE 0)]
    /\ pc' = [pc EXCEPT ![p] = "loop"]
    /\ cnt' = [cnt EXCEPT ![p].eval = @ + 1]
    /\ UNCHANGED <<rng, params, cur, ret, err, out, ref, ev, evPrev>>

\* One iteration, second half: compute_vstar on the clamped draw; its
\* ValueError leaves the comprehension and bootstrap_vstar.
Eval(p) ==
    /\ pc[p] = "eval"
    /\ LET r == compute_vstar(cur[p], params[p].kappa)
       IN IF r.raised = "none"
          THEN /\ samples' = [samples EXCEPT ![p] = Append(@, r.value[1])]
               /\ pc' = [pc EXCEPT ![p] = "loop"]
               /\ err' = err
          ELSE /\ err' = [err EXCEPT ![p] = r.raised]
               /\ pc' = [pc EXCEPT ![p] = "raised"]
               /\ samples' = samples
    /\ cnt' = [cnt EXCEPT ![p].eval = @ + 1]
    /\ UNCHANGED <<rng, params, cur, ret, out, ref, ev, evPrev>>

\* A reduction that returns (0, 0) for an empty sample instead of failing.
ReduceEmptyZero(p) ==
    /\ pc[p] = "loop"
    /\ Len(samples[p]) >= params[p].trials
    /\ ret' = [ret EXCEPT ![p] =
           IF samples[p] = <<>>
           THEN <<0, 0>>
           ELSE <<Mean(samples[p]),
                  IF params[p].trials > 1 THEN Stdev(samples[p]) ELSE 0>>]
    /\ pc' = [pc EXCEPT ![p] = "ret"]
    /\ UNCHANGED <<rng, params, cur, samples, err, out, cnt, ref, ev, evPrev>>

\* After range(trials) is exhausted: statistics.mean (StatisticsError on an
\* empty sample), statistics.stdev when trials > 1, and the return.
Reduce(p) ==
    /\ pc[p] = "loop"
    /\ Len(samples[p]) >= params[p].trials
    /\ IF samples[p] = <<>>
       THEN /\ err' = [err EXCEPT ![p] = "StatisticsError"]
            /\ pc' = [pc EXCEPT ![p] = "raised"]
            /\ ret' = ret
       ELSE /\ ret' = [ret EXCEPT ![p] =
                  <<Mean(samples[p]),
                    IF params[p].trials > 1 THEN Stdev(samples[p]) ELSE 0>>]
            /\ pc' = [pc EXCEPT ![p] = "ret"]
            /\ err' = err
    /\ UNCHANGED <<rng, params, cur, samples, out, cnt, ref, ev, evPrev>>

\* main prints the result record once bootstrap_vstar has returned.
MainOutput(p) ==
    /\ pc[p] = "ret"
    /\ out' = [out EXCEPT ![p] =
           <<[params |-> params[p], mean |-> ret[p][1], std |-> ret[p][2]]>>]
    /\ pc' = [pc EXCEPT ![p] = "exit"]
    /\ UNCHANGED <<rng, params, cur, samples, ret, err, cnt, ref, ev, evPrev>>

\* An observer keeps the outcome of a finished call, to compare later calls
\* with it.
Remember ==
    /\ pc[1] \in {"exit", "raised"}
    /\ ref' = [set |-> TRUE, params |-> params[1], err |-> err[1], ret |-> ret[1]]
    /\ ref' # ref
    /\ UNCHANGED <<rng, pc, params, cur, samples, ret, err, out, cnt, ev, evPrev>>

\* A direct call of compute_vstar, as the self-test and the benchmark make.
Evaluate(chi, kappa) ==
    /\ evPrev' = ev
    /\ ev' = [called |-> TRUE, chi |-> chi, kappa |-> kappa,
              raised |-> compute_vstar(chi, kappa).raised,
              value |-> compute_vstar(chi, kappa).value]
    /\ UNCHANGED <<rng, pc, params, cur, samples, ret, err, out, cnt, ref>>

\* ---------------------------------------------------------- specifications
\* The program as written: one caller at a time, any command line.
Next ==
    \/ Main(1)
    \/ Seed(1)
    \/ Draw(1)
    \/ Eval(1)
    \/ Reduce(1)
    \/ MainOutput(1)
    \/ Return(1)

Spec == Init /\ [][Next]_vars

\* The interpreter runs a started call to its end.
FairSpec == Spec /\ WF_vars(Seed(1) \/ Draw(1) \/ Eval(1) \/ Reduce(1) \/ MainOutput(1))

\* One caller at a time on valid command lines, with the observer.
NextPair ==
    \/ MainValid(1)
    \/ Seed(1)
    \/ Draw(1)
    \/ Eval(1)
    \/ Reduce(1)
    \/ MainOutput(1)
    \/ Return(1)
    \/ Remember

SpecPair == Init /\ [][NextPair]_vars

\* Two threads of one interpreter, each calling main once on a valid command
\* line; the interpreter may switch threads between any two steps.
NextConc ==
    \E p \in Procs :
        \/ MainValid(p)
        \/ Seed(p)
        \/ Draw(p)
        \/ Eval(p)
        \/ Reduce(p)
        \/ MainOutput(p)

SpecConc == Init /\ [][NextConc]_vars

\* Direct calls of the evaluator.
NextEval == \E chi \in ChiVals, kappa \in KappaVals : Evaluate(chi, kappa)

SpecEval == Init /\ [][NextEval]_vars

\* ------------------------------------------------------------------ claims
\* v is sqrt(chi / kappa) / ELL_P at the model's resolution: some s is the
\* root of the quotient rounded down, and v is s / ELL_P rounded down.
IsVstar(chi, kappa, v) ==
    LET q == (chi * RatioScale) \div kappa
    IN \E s \in ((v * ELL_P) \div EllPScale)..(((v + 1) * ELL_P) \div EllPScale) :
          /\ s * s <= q
          /\ q < (s + 1) * (s + 1)
          /\ v * ELL_P <= s * EllPScale
          /\ s * EllPScale < (v + 1) * ELL_P

\* C1: a call of compute_vstar with chi <= 0 or kappa <= 0 raises the
\* ValueError and returns no value at all.
C1_DomainError ==
    (ev.called /\ (ev.chi <= 0 \/ ev.kappa <= 0))
        => (ev.raised = "ValueError" /\ ev.value = <<>>)

\* C1 witness: the evaluator was called with chi = 0 and a positive kappa and
\* raised.
C1_Witness ==
    ev.called /\ ev.chi = 0 /\ ev.kappa > 0 /\ ev.raised = "ValueError"

\* C2: a call of compute_vstar with chi > 0 and kappa > 0 returns
\* sqrt(chi / kappa) / ELL_P; a repeated call with the same inputs returns the
\* same value; and the call changes nothing but its own result, the random
\* source included.
C2_ValueOk ==
    (ev.called /\ ev.chi > 0 /\ ev.kappa > 0)
        => /\ ev.raised = "none"
           /\ Len(ev.value) = 1
           /\ IsVstar(ev.chi, ev.kappa, ev.value[1])
           /\ (evPrev.called /\ evPrev.chi = ev.chi /\ evPrev.kappa = ev.kappa)
                  => evPrev.value = ev.value

C2_NoEffect ==
    ev' # ev => UNCHANGED <<rng, pc, params, cur, samples, ret, err, out, cnt, ref>>

C2_PureEvaluator == [](C2_ValueOk) /\ [][C2_NoEffect]_vars

\* C2 witness: two calls in a row with the same positive inputs returned.
C2_Witness ==
    /\ ev.called /\ evPrev.called
    /\ ev.chi = 3 /\ ev.kappa = 2
    /\ evPrev.chi = ev.chi /\ evPrev.kappa = ev.kappa
    /\ ev.value # <<>>

\* The parameters of caller 1 meet the documented preconditions.
Valid ==
    /\ params[1].chi > 0 /\ params[1].kappa > 0
    /\ params[1].eps >= 0 /\ params[1].trials >= 1

Abs(a) == IF a < 0 THEN 0 - a ELSE a

\* math.isclose with its default relative tolerance of 1e-9.
RelTolInv == 1000000000
IsClose(a, b) == Abs(a - b) <= max(Abs(a), Abs(b)) \div RelTolInv

\* C3: two calls of bootstrap_vstar with identical valid parameters, one after
\* the other with any calls in between, return the same (mean, stdev) pair,
\* whatever state the random source was in before each; the pair is the one
\* the parameters alone determine.
C3_Deterministic ==
    /\ (ref.set /\ pc[1] \in {"exit", "raised"} /\ params[1] = ref.params)
          => (err[1] = ref.err /\ ret[1] = ref.ret)
    /\ pc[1] = "exit" => ret[1] = bootstrap_vstar_alone(params[1])

\* C3 witness: a call with two perturbed trials has ended with the same
\* parameters as a remembered earlier call, and with a non-zero spread.
C3_Witness ==
    /\ ref.set /\ pc[1] = "exit" /\ params[1] = ref.params
    /\ params[1].trials = 2 /\ params[1].eps = 1
    /\ ret[1][2] > 0

\* C4: of two concurrent calls of bootstrap_vstar, each returns the pair it
\* returns when it runs alone with the same parameters, under every
\* interleaving of their steps.
C4_NoSharing ==
    \A p \in Procs : pc[p] = "exit" => ret[p] = bootstrap_vstar_alone(params[p])

\* C5 as stated: with valid parameters and trials = 1, the mean is the
\* unperturbed compute_vstar(chi, kappa) within tolerance and the stdev is 0.
C5_SingleTrialNominal ==
    (pc[1] = "exit" /\ Valid /\ params[1].trials = 1)
        => /\ IsClose(ret[1][1], compute_vstar(params[1].chi, params[1].kappa).value[1])
           /\ ret[1][2] = 0

\* C5 amended: with valid parameters and trials = 1, the mean is compute_vstar
\* at the single clamped draw max(1e-12, chi + z * eps * chi), z the first
\* deviate of the seed's stream, and the stdev is exactly 0; the mean is the
\* unperturbed value when eps = 0 and chi is not below the floor.
C5_SingleTrial ==
    (pc[1] = "exit" /\ Valid /\ params[1].trials = 1)
        => LET p == params[1]
               d == p.chi + Gauss01(p.seed, 0) * (p.eps * p.chi)
               c == IF d < ChiFloor THEN ChiFloor ELSE d
           IN /\ ret[1] = <<compute_vstar(c, p.kappa).value[1], 0>>
              /\ (p.eps = 0 /\ p.chi >= ChiFloor)
                    => IsClose(ret[1][1], compute_vstar(p.chi, p.kappa).value[1])

\* C5 witness: a single-trial call on valid parameters has returned a mean
\* that the perturbation moved away from the unperturbed value.
C5_Witness ==
    /\ pc[1] = "exit" /\ Valid /\ params[1].trials = 1 /\ params[1].eps = 1
    /\ ret[1][2] = 0
    /\ ret[1][1] # compute_vstar(params[1].chi, params[1].kappa).value[1]

\* The call that has just ended and the remembered one differ in chi only,
\* the remembered chi being the smaller.
SameButChi ==
    /\ ref.set /\ pc[1] = "exit" /\ ref.err = "none"
    /\ ref.params.kappa = params[1].kappa
    /\ ref.params.eps = params[1].eps
    /\ ref.params.trials = params[1].trials
    /\ ref.params.seed = params[1].seed
    /\ ref.params.chi < params[1].chi

\* C6 as stated: with kappa, eps, trials and seed fixed, the larger chi gives
\* the strictly larger mean.
C6_StrictlyIncreasing == SameButChi => ref.ret[1] < ret[1][1]

\* C6 amended: with kappa, eps, trials and seed fixed, the larger chi gives a
\* mean that is not smaller.
C6_NonDecreasing == SameButChi => ref.ret[1] <= ret[1][1]

\* C6 witness: two two-trial calls with eps = 1 that differ in chi only, the
\* larger chi giving the larger mean.
C6_Witness ==
    /\ SameButChi /\ params[1].trials = 2 /\ params[1].eps = 1
    /\ ref.ret[1] < ret[1][1]

\* C7: for trials >= 1 a call seeds the source once, before the first draw;
\* draws and evaluations alternate on that one stream, the i-th draw being
\* the stream's i-th; it returns after exactly trials draws and evaluations or
\* fails at an evaluation, after which nothing more is drawn or evaluated; and
\* it always ends.
C7_Order ==
    (pc[1] # "idle" /\ params[1].trials >= 1)
        => /\ cnt[1].seed = (IF pc[1] = "seed" THEN 0 ELSE 1)
           /\ pc[1] = "seed" => cnt[1].draw = 0
           /\ cnt[1].draw = cnt[1].eval + (IF pc[1] = "eval" THEN 1 ELSE 0)
           /\ cnt[1].draw <= params[1].trials
           /\ pc[1] # "seed" => rng = [seed |-> params[1].seed, pos |-> cnt[1].draw]
           /\ cnt[1].eval = Len(samples[1]) + (IF pc[1] = "raised" THEN 1 ELSE 0)
           /\ pc[1] \in {"ret", "exit"}
                 => (cnt[1].draw = params[1].trials /\ cnt[1].eval = params[1].trials)
           /\ pc[1] = "raised" => err[1] = "ValueError"

C7_Stop ==
    (pc[1] \in {"ret", "exit", "raised"} /\ params[1].trials >= 1)
        => (pc'[1] = "idle" \/ (cnt'[1] = cnt[1] /\ rng' = rng))

C7_Ends ==
    (pc[1] = "seed" /\ params[1].trials >= 1) ~> (pc[1] \in {"ret", "raised"})

C7_SeedOnceInOrder == [](C7_Order) /\ [][C7_Stop]_vars /\ C7_Ends

\* C7 witness: a call with two trials has returned after two draws and two
\* evaluations.
C7_Witness ==
    /\ pc[1] = "exit" /\ params[1].trials = 2
    /\ cnt[1] = [seed |-> 1, draw |-> 2, eval |-> 2]

\* C8: with trials >= 1 and kappa <= 0 the call raises the evaluator's
\* ValueError at the first evaluation, after exactly one draw; main lets it
\* through and prints nothing; no pair and no sample value comes into being.
C8_KappaFails ==
    (pc[1] # "idle" /\ params[1].trials >= 1 /\ params[1].kappa <= 0)
        => /\ pc[1] \notin {"ret", "exit"}
           /\ ret[1] = NoResult /\ out[1] = <<>> /\ samples[1] = <<>>
           /\ pc[1] = "raised"
                 => (err[1] = "ValueError" /\ cnt[1].draw = 1 /\ cnt[1].eval = 1)
           /\ pc[1] # "raised" => err[1] = "none"

\* C8 witness: a two-trial call with kappa = 0 and a positive chi has raised.
C8_Witness ==
    /\ pc[1] = "raised" /\ err[1] = "ValueError"
    /\ params[1].kappa = 0 /\ params[1].chi > 0 /\ params[1].trials = 2

\* C9: every evaluation inside bootstrap_vstar gets a chi of at least the
\* floor; so with kappa > 0 and trials >= 1 the call never raises, and a
\* non-positive nominal chi is evaluated at clamped values and its result
\* printed.
C9_ClampedChi ==
    /\ pc[1] = "eval" => (cur[1] >= ChiFloor /\ cur[1] > 0)
    /\ (pc[1] # "idle" /\ params[1].kappa > 0 /\ params[1].trials >= 1)
          => (err[1] = "none" /\ pc[1] # "raised")
    /\ (pc[1] = "exit" /\ params[1].kappa > 0 /\ params[1].trials >= 1
           /\ params[1].chi <= 0)
          => /\ Len(samples[1]) = params[1].trials
             /\ \A i \in 1..Len(samples[1]) :
                   samples[1][i] >= compute_vstar(ChiFloor, params[1].kappa).value[1]
             /\ out[1] # <<>>

\* C9 witness: a two-trial call with a negative nominal chi has returned and
\* its result was printed.
C9_Witness ==
    /\ pc[1] = "exit" /\ params[1].chi < 0 /\ params[1].kappa > 0
    /\ params[1].trials = 2 /\ out[1] # <<>>

\* C10: with trials <= 0 the call seeds the source, draws nothing, evaluates
\* nothing and returns no pair; it fails in the mean of the empty sample with
\* the StatisticsError, never with the evaluator's ValueError, also when
\* kappa <= 0.
C10_EmptySample ==
    (pc[1] # "idle" /\ params[1].trials <= 0)
        => /\ cnt[1].draw = 0 /\ cnt[1].eval = 0
           /\ pc[1] \in {"seed", "loop", "raised"}
           /\ pc[1] \in {"loop", "raised"}
                 => (cnt[1].seed = 1 /\ rng = [seed |-> params[1].seed, pos |-> 0])
           /\ ret[1] = NoResult /\ out[1] = <<>>
           /\ err[1] = (IF pc[1] = "raised" THEN "StatisticsError" ELSE "none")

\* C10 witness: a call with a negative trial count and kappa = 0 has failed
\* with the StatisticsError.
C10_Witness ==
    /\ pc[1] = "raised" /\ err[1] = "StatisticsError"
    /\ params[1].trials < 0 /\ params[1].kappa = 0

====
